---- MODULE Spec2Model ----
(***************************************************************************)
(* Model of the lesson-booking REST backend (src/Server.js and its         *)
(* variant src/unnamed/part_000): the POST /orders and POST /api/orders    *)
(* handlers, the PUT /lessons/:id handler, and the two MongoDB             *)
(* collections they write, "Orders" and "Products".                        *)
(*                                                                         *)
(* Every handler is an async function: it runs synchronously up to an      *)
(* await of a storage call, the storage performs that one call atomically  *)
(* (insertOne, or updateOne on a single document), and the handler resumes *)
(* synchronously up to its next await.  One action below is one such       *)
(* storage call together with the synchronous code that follows it.        *)
(***************************************************************************)
EXTENDS Integers, Sequences, FiniteSets, TLC

VARIABLES
    Products,   \* the "Products" collection: ObjectId -> lesson document
    Orders,     \* the "Orders" collection: documents in insertion order
    call,       \* call[p]: one POST /orders (or /api/orders) request and its handler
    put         \* one PUT /lessons/:id request and its handler

vars == <<Products, Orders, call, put>>

-----------------------------------------------------------------------------
(* Bounds of the model *)

NumCalls == 2        \* concurrent order requests
MaxItems == 3        \* longest items array of a single request

(* HTTP status codes the handlers send *)
BadRequest == 400
Created == 201
ServerError == 500
NotFound == 404
Ok == 200
NoStatus == 0        \* no response sent yet

-----------------------------------------------------------------------------
(* JavaScript values *)

Undefined == "<undefined>"
Null == "<null>"

\* !v for the values a body field takes here: undefined and "" are falsy
Falsy(v) == v \in {Undefined, ""}

\* BSON serialisation of a field value: undefined is written as null
Bson(v) == IF v = Undefined THEN Null ELSE v

-----------------------------------------------------------------------------
(* ObjectId *)

\* strings of 24 hex characters (the first two are _ids of lessons)
HexIds == {"aaaaaaaaaaaaaaaaaaaaaaa1", "aaaaaaaaaaaaaaaaaaaaaaa2", "aaaaaaaaaaaaaaaaaaaaaaa9"}
\* strings that are no ObjectId
MalformedIds == {"math"}
IdStrings == HexIds \cup MalformedIds

E1 == "aaaaaaaaaaaaaaaaaaaaaaa1"
E2 == "aaaaaaaaaaaaaaaaaaaaaaa2"
E9 == "aaaaaaaaaaaaaaaaaaaaaaa9"
Bad == "math"

\* ObjectId.isValid(s); new ObjectId(s) throws exactly when it is false
ObjectIdIsValid(s) == s \in HexIds

\* new ObjectId(s), for a valid s
ObjectId(s) == <<"ObjectId", s>>

-----------------------------------------------------------------------------
(* The Products collection *)

InitProducts ==
    (ObjectId(E1) :> [spaces |-> 5, price |-> 100]) @@
    (ObjectId(E2) :> [spaces |-> 3, price |-> 80])

\* how many documents the filter { _id: oid } matches
MatchedCount(coll, oid) == IF oid \in DOMAIN coll THEN 1 ELSE 0

\* mutant: the update run with upsert, inserting a document when none matches
UpdateOneInc_Upsert(coll, oid, n) ==
    IF oid \in DOMAIN coll
    THEN [coll EXCEPT ![oid] = [@ EXCEPT !.spaces = @ + n]]
    ELSE coll @@ (oid :> [spaces |-> n])

\* mutant: the decrement floored at zero
UpdateOneInc_Clamped(coll, oid, n) ==
    IF oid \in DOMAIN coll
    THEN [coll EXCEPT ![oid] = [@ EXCEPT !.spaces = IF @ + n < 0 THEN 0 ELSE @ + n]]
    ELSE coll

\* updateOne({ _id: oid }, { $inc: { spaces: n } })
UpdateOneInc(coll, oid, n) ==
    IF oid \in DOMAIN coll
    THEN [coll EXCEPT ![oid] = [@ EXCEPT !.spaces = @ + n]]
    ELSE coll

\* { $set: updates } applied to one document
SetFields(doc, updates) ==
    [f \in DOMAIN doc \cup DOMAIN updates |->
        IF f \in DOMAIN updates THEN updates[f] ELSE doc[f]]

\* mutant: the update run with upsert, inserting a document when none matches
UpdateOneSet_Upsert(coll, oid, updates) ==
    IF oid \in DOMAIN coll
    THEN [coll EXCEPT ![oid] = SetFields(@, updates)]
    ELSE coll @@ (oid :> updates)

\* updateOne({ _id: oid }, { $set: updates })
UpdateOneSet(coll, oid, updates) ==
    IF oid \in DOMAIN coll
    THEN [coll EXCEPT ![oid] = SetFields(@, updates)]
    ELSE coll

-----------------------------------------------------------------------------
(* Order requests *)

Routes == {"/orders", "/api/orders"}

\* all sequences over S of length at most n
SeqUpTo(S, n) == UNION {[1..k -> S] : k \in 0..n}

Item(id, q) == [lessonId |-> id, qty |-> q]

\* req.body; items.array says whether Array.isArray(items)
Body(n, ph, ad, arr, its) ==
    [name |-> n, phone |-> ph, address |-> ad, items |-> [array |-> arr, elems |-> its]]

Bodies(names, phones, addresses, itemSet, maxLen) ==
    {Body(n, ph, ad, TRUE, its) :
        n \in names, ph \in phones, ad \in addresses, its \in SeqUpTo(itemSet, maxLen)}
    \cup {Body(n, ph, ad, FALSE, <<>>) : n \in names, ph \in phones, ad \in addresses}

\* the items of the single-call specification: every id with a positive qty,
\* and the existing lessons also with a negative and a zero qty (the qty of an
\* item is read only once its id has matched a lesson)
AllItems ==
    {Item(id, 3) : id \in IdStrings} \cup {Item(id, q) : id \in {E1, E2}, q \in {-1, 0}}

\* the requests of the single-call specification, items arrays up to maxLen long
AllBodies(maxLen) ==
    Bodies({Undefined, "", "Ann"}, {"", "07"}, {Undefined, "1 High St"}, AllItems, maxLen)

\* the requests of the concurrent specifications
ConcBodies ==
    {Body("", "07", Undefined, TRUE, <<Item(E1, 3)>>)}
    \cup {Body("Ann", "07", Undefined, TRUE, its) :
             its \in {<<>>, <<Item(E1, 3)>>, <<Item(E9, 3)>>, <<Item(Bad, 3)>>,
                      <<Item(E1, 3), Item(E1, 3)>>, <<Item(E2, -1), Item(E1, 3)>>}}

\* mutant: the address left out of the document on every route
OrderDoc_NoAddress(route, b) ==
    [name |-> Bson(b.name), phone |-> Bson(b.phone), items |-> b.items.elems]

\* the document the handler passes to insertOne
OrderDoc(route, b) ==
    IF route = "/orders"
    THEN [name |-> Bson(b.name), phone |-> Bson(b.phone),
          address |-> Bson(b.address), items |-> b.items.elems]
    ELSE [name |-> Bson(b.name), phone |-> Bson(b.phone), items |-> b.items.elems]

\* mutant: the phone left out of the validation
InvalidOrderFormat_NameOnly(b) == Falsy(b.name) \/ ~b.items.array

\* the validation both handlers run before any storage call
InvalidOrderFormat(b) == Falsy(b.name) \/ Falsy(b.phone) \/ ~b.items.array

-----------------------------------------------------------------------------
(* State of one call *)

Calls == 1..NumCalls

IdleCall ==
    [pc |-> "idle", route |-> "/orders", body |-> Body(Undefined, Undefined, Undefined, FALSE, <<>>),
     idx |-> 0, status |-> NoStatus, err |-> "none"]

IdlePut == [pc |-> "idle", id |-> Bad, updates |-> [price |-> 0], status |-> NoStatus]

Init ==
    /\ Products = InitProducts
    /\ Orders = <<>>
    /\ call = [p \in Calls |-> IdleCall]
    /\ put = IdlePut

\* res.status(s).send(...): the handler is finished
Respond(c, s, e) == [c EXCEPT !.pc = "done", !.status = s, !.err = e]

\* after `done` items of the loop: the next await, or the 201 after the loop
AfterItems(c, done) ==
    IF done = Len(c.body.items.elems)
    THEN Respond([c EXCEPT !.idx = done], Created, "none")
    ELSE [c EXCEPT !.pc = "loop", !.idx = done]

\* the request arrives: destructuring and validation, up to the await of insertOne
Receive(p, bodies) ==
    /\ call[p].pc = "idle"
    /\ \E rt \in Routes, b \in bodies :
         LET c == [call[p] EXCEPT !.route = rt, !.body = b]
         IN  call' = [call EXCEPT ![p] =
                 IF InvalidOrderFormat(b)
                 THEN Respond(c, BadRequest, "none")
                 ELSE [c EXCEPT !.pc = "insert"]]
    /\ UNCHANGED <<Products, Orders, put>>

\* insertOne resolves, and the handler runs on to its next await
InsertOk(p) ==
    /\ call[p].pc = "insert"
    /\ Orders' = Append(Orders, OrderDoc(call[p].route, call[p].body))
    /\ call' = [call EXCEPT ![p] = AfterItems(@, 0)]
    /\ UNCHANGED <<Products, put>>

\* mutant: the rejection swallowed, the handler going on to the items
InsertFail_Swallowed(p) ==
    /\ call[p].pc = "insert"
    /\ call' = [call EXCEPT ![p] = AfterItems(@, 0)]
    /\ UNCHANGED <<Products, Orders, put>>

\* insertOne rejects: the catch block answers 500
InsertFail(p) ==
    /\ call[p].pc = "insert"
    /\ call' = [call EXCEPT ![p] = Respond(@, ServerError, "insert")]
    /\ UNCHANGED <<Products, Orders, put>>

\* the item the loop is at
CurrentItem(c) == c.body.items.elems[c.idx + 1]

\* mutant: the catch block also deletes the order record
ItemThrows_Rollback(p) ==
    /\ call[p].pc = "loop"
    /\ ~ObjectIdIsValid(CurrentItem(call[p]).lessonId)
    /\ call' = [call EXCEPT ![p] = Respond(@, ServerError, "objectid")]
    /\ Orders' = SubSeq(Orders, 1, Len(Orders) - 1)
    /\ UNCHANGED <<Products, put>>

\* new ObjectId(item.lessonId) throws: the catch block answers 500
ItemThrows(p) ==
    /\ call[p].pc = "loop"
    /\ ~ObjectIdIsValid(CurrentItem(call[p]).lessonId)
    /\ call' = [call EXCEPT ![p] = Respond(@, ServerError, "objectid")]
    /\ UNCHANGED <<Products, Orders, put>>

\* updateOne resolves, and the handler runs on to its next await
ItemOk(p) ==
    /\ call[p].pc = "loop"
    /\ ObjectIdIsValid(CurrentItem(call[p]).lessonId)
    /\ LET it == CurrentItem(call[p])
       IN  Products' = UpdateOneInc(Products, ObjectId(it.lessonId), -it.qty)
    /\ call' = [call EXCEPT ![p] = AfterItems(@, @.idx + 1)]
    /\ UNCHANGED <<Orders, put>>

\* updateOne rejects: the catch block answers 500
ItemFail(p) ==
    /\ call[p].pc = "loop"
    /\ ObjectIdIsValid(CurrentItem(call[p]).lessonId)
    /\ call' = [call EXCEPT ![p] = Respond(@, ServerError, "update")]
    /\ UNCHANGED <<Products, Orders, put>>

PlaceOrder(p, bodies) ==
    \/ Receive(p, bodies)
    \/ InsertOk(p)
    \/ InsertFail(p)
    \/ ItemThrows(p)
    \/ ItemOk(p)
    \/ ItemFail(p)

-----------------------------------------------------------------------------
(* PUT /lessons/:id *)

UpdateBodies == {[spaces |-> 0], [price |-> 90], [spaces |-> 7, location |-> "Hendon"]}

\* the whole handler when updateOne resolves (or is never called)
UpdateEntry ==
    /\ put.pc = "idle"
    /\ \E id \in IdStrings, u \in UpdateBodies :
         IF ~ObjectIdIsValid(id)
         THEN /\ put' = [pc |-> "done", id |-> id, updates |-> u, status |-> BadRequest]
              /\ UNCHANGED Products
         ELSE /\ Products' = UpdateOneSet(Products, ObjectId(id), u)
              /\ put' = [pc |-> "done", id |-> id, updates |-> u,
                         status |-> IF MatchedCount(Products, ObjectId(id)) = 0
                                    THEN NotFound ELSE Ok]
    /\ UNCHANGED <<Orders, call>>

\* the handler when updateOne rejects
UpdateEntryFail ==
    /\ put.pc = "idle"
    /\ \E id \in HexIds, u \in UpdateBodies :
         put' = [pc |-> "done", id |-> id, updates |-> u, status |-> ServerError]
    /\ UNCHANGED <<Products, Orders, call>>

-----------------------------------------------------------------------------
(* Specifications *)

\* concurrent order requests
Next == \E p \in Calls : PlaceOrder(p, ConcBodies)

Spec == Init /\ [][Next]_vars

\* a catalog update concurrent with one order request
NextUpdate ==
    \/ PlaceOrder(1, ConcBodies)
    \/ UpdateEntry
    \/ UpdateEntryFail

SpecUpdate == Init /\ [][NextUpdate]_vars

\* one order request, over every request shape
NextOne == PlaceOrder(1, AllBodies(MaxItems))

SpecOne == Init /\ [][NextOne]_vars

-----------------------------------------------------------------------------
(* What the claims speak of *)

\* the items array of a call
ItemsOf(c) == c.body.items.elems

\* the sum of qty over the first n of items that name the lesson oid
RECURSIVE SumQty(_, _, _)
SumQty(items, oid, n) ==
    IF n = 0 THEN 0
    ELSE SumQty(items, oid, n - 1)
         + (IF <<"ObjectId", items[n].lessonId>> = oid THEN items[n].qty ELSE 0)

\* the catalog is the initial one with spaces of each lesson lowered by the
\* first n items of the one call; no lesson added, removed or otherwise changed
DecrementedBy(items, n) ==
    /\ DOMAIN Products = DOMAIN InitProducts
    /\ \A oid \in DOMAIN InitProducts :
         Products[oid] =
             [InitProducts[oid] EXCEPT !.spaces = @ - SumQty(items, oid, n)]

\* name and phone are present and non-empty
HeaderOk(b) == b.name \notin {Undefined, ""} /\ b.phone \notin {Undefined, ""}

\* the record a request is to leave in the Order Store
RecordOf(c) ==
    LET b == c.body
        ad == IF b.address = Undefined THEN Null ELSE b.address
    IN  IF c.route = "/orders"
        THEN [name |-> b.name, phone |-> b.phone, address |-> ad, items |-> b.items.elems]
        ELSE [name |-> b.name, phone |-> b.phone, items |-> b.items.elems]

\* a valid order request: name and phone, at least one item, every item naming
\* an existing lesson with a qty > 0 that the lesson's spaces cover
ValidRequest(b) ==
    /\ HeaderOk(b)
    /\ b.items.array
    /\ Len(b.items.elems) > 0
    /\ \A i \in 1..Len(b.items.elems) :
         LET it == b.items.elems[i]
         IN  /\ <<"ObjectId", it.lessonId>> \in DOMAIN InitProducts
             /\ it.qty > 0
             /\ it.qty <= InitProducts[<<"ObjectId", it.lessonId>>].spaces

\* the item names an existing lesson
Matched(it) == <<"ObjectId", it.lessonId>> \in DOMAIN InitProducts

\* the sum of f over the finite set S
RECURSIVE SumOver(_, _)
SumOver(f, S) ==
    IF S = {} THEN 0
    ELSE LET x == CHOOSE y \in S : TRUE IN f[x] + SumOver(f, S \ {x})

\* the call has inserted its order record
Inserted(c) ==
    \/ c.pc = "loop"
    \/ c.pc = "done" /\ c.status = Created
    \/ c.pc = "done" /\ c.status = ServerError /\ c.err # "insert"

\* every call has completed with 201
AllCompleted == \A p \in Calls : call[p].pc = "done" /\ call[p].status = Created

-----------------------------------------------------------------------------
\* C1: a valid order request whose storage calls all succeed is answered 201,
\* leaves exactly one record in the Order Store, carrying the request's name,
\* phone, address (absent on /api/orders) and items, and lowers the spaces of
\* each referenced lesson by the qty requested of it, leaving every other
\* lesson as it was.
C1_ValidOrderPlaced ==
    LET c == call[1]
    IN  (c.pc = "done" /\ ValidRequest(c.body) /\ c.err = "none") =>
            /\ c.status = Created
            /\ Orders = <<RecordOf(c)>>
            /\ DecrementedBy(ItemsOf(c), Len(ItemsOf(c)))

C1_Witness ==
    LET c == call[1]
    IN  /\ c.pc = "done" /\ c.status = Created /\ c.route = "/orders"
        /\ ValidRequest(c.body)
        /\ c.body.address # Undefined
        /\ Len(ItemsOf(c)) = 2
        /\ ItemsOf(c)[1].lessonId = E1 /\ ItemsOf(c)[2].lessonId = E2
        /\ Products[ObjectId(E1)].spaces = 2 /\ Products[ObjectId(E2)].spaces = 0

\* C2: a request whose name or phone is missing or empty is answered 400,
\* whatever its items, and writes nothing: no order record, no change of any
\* lesson.
C2_MissingNameOrPhoneRejected ==
    LET c == call[1]
    IN  (c.pc # "idle" /\ ~HeaderOk(c.body)) =>
            /\ c.pc = "done"
            /\ c.status = BadRequest
            /\ Orders = <<>>
            /\ Products = InitProducts

C2_Witness ==
    LET c == call[1]
    IN  /\ c.pc = "done" /\ c.status = BadRequest
        /\ c.body.name = "Ann" /\ c.body.phone = ""
        /\ c.body.items.array /\ Len(ItemsOf(c)) = MaxItems

\* C3 (as claimed): a request whose items array is empty, or holds an item
\* with qty <= 0, is answered 400 and writes nothing.
C3_EmptyOrNonPositiveRejected ==
    LET c == call[1]
    IN  (/\ c.pc = "done" /\ c.err = "none" /\ c.body.items.array
         /\ \/ Len(ItemsOf(c)) = 0
            \/ \E i \in 1..Len(ItemsOf(c)) : ItemsOf(c)[i].qty <= 0) =>
            /\ c.status = BadRequest
            /\ Orders = <<>>
            /\ Products = InitProducts

\* C4 (as claimed): spaces of every lesson stays >= 0.
C4_SpacesNeverNegative ==
    \A oid \in DOMAIN Products : Products[oid].spaces >= 0

\* C5 (as claimed): once the order record is inserted the request is answered
\* with success and every item has been attempted, here for the requests with
\* every qty > 0 and no storage failure, where only a malformed id is left to
\* go wrong.
C5_SuccessOnceInserted ==
    LET c == call[1]
    IN  (/\ c.pc = "done" /\ Orders # <<>> /\ c.err # "update"
         /\ \A i \in 1..Len(ItemsOf(c)) : ItemsOf(c)[i].qty > 0) =>
            /\ c.status = Created
            /\ c.idx = Len(ItemsOf(c))

\* C6: in a request whose ids are all well-formed and whose storage calls all
\* succeed, an item naming no lesson changes no lesson and creates none; the
\* order is recorded and answered 201, and the lessons end as the request
\* without its unmatched items would leave them.
C6_UnmatchedItemIsNoOp ==
    LET c == call[1]
        items == ItemsOf(c)
        rest == SelectSeq(items, Matched)
    IN  (/\ c.pc = "done" /\ c.err = "none" /\ HeaderOk(c.body) /\ c.body.items.array
         /\ \E i \in 1..Len(items) : ~Matched(items[i])) =>
            /\ c.status = Created
            /\ Orders = <<RecordOf(c)>>
            /\ DecrementedBy(rest, Len(rest))

C6_Witness ==
    LET c == call[1]
        items == ItemsOf(c)
    IN  /\ c.pc = "done" /\ c.status = Created
        /\ Len(items) = 3
        /\ items[1] = Item(E1, 3) /\ items[2] = Item(E9, 3) /\ items[3] = Item(E2, 3)
        /\ Products[ObjectId(E1)].spaces = 2 /\ Products[ObjectId(E2)].spaces = 0

\* C7: when the insert of the order fails the request is answered 500, no
\* order record exists and no lesson has changed: a handler that is past its
\* insert without a record in the Order Store has answered 500 and written
\* nothing.
C7_InsertFailureAborts ==
    LET c == call[1]
    IN  (/\ c.pc \in {"loop", "done"} /\ HeaderOk(c.body) /\ c.body.items.array
         /\ Orders = <<>>) =>
            /\ c.pc = "done"
            /\ c.status = ServerError
            /\ c.idx = 0
            /\ Products = InitProducts

C7_Witness ==
    LET c == call[1]
    IN  /\ c.pc = "done" /\ c.status = ServerError /\ c.err = "insert"
        /\ Orders = <<>>
        /\ Len(ItemsOf(c)) = 2 /\ ItemsOf(c)[1] = Item(E1, 3)

\* C8: a PUT /lessons/:id never touches the Order Store; with a malformed id
\* it answers 400 and with a well-formed id matching no lesson it answers 404
\* (500 if the storage fails), the catalog unchanged in each case; with a
\* matching id it answers 200 and exactly that lesson takes the given fields,
\* every other lesson and every other field staying as it was.
C8_UpdateEntryFrame ==
    [][(put.pc = "idle" /\ put'.pc = "done") =>
        LET id == put'.id
            oid == <<"ObjectId", id>>
            u == put'.updates
        IN  /\ Orders' = Orders
            /\ put'.status \in {BadRequest, NotFound, Ok, ServerError}
            /\ (id \in MalformedIds) <=> (put'.status = BadRequest)
            /\ (put'.status = NotFound) => (id \in HexIds /\ oid \notin DOMAIN Products)
            /\ (put'.status = Ok) => (oid \in DOMAIN Products)
            /\ (put'.status # Ok) => (Products' = Products)
            /\ (put'.status = Ok) =>
                  /\ DOMAIN Products' = DOMAIN Products
                  /\ \A o \in DOMAIN Products \ {oid} : Products'[o] = Products[o]
                  /\ DOMAIN Products'[oid] = DOMAIN Products[oid] \cup DOMAIN u
                  /\ \A f \in DOMAIN Products'[oid] :
                        Products'[oid][f] = IF f \in DOMAIN u THEN u[f] ELSE Products[oid][f]
      ]_vars

C8_Witness ==
    /\ put.pc = "done" /\ put.status = NotFound /\ put.id = E9
    /\ call[1].pc = "done" /\ call[1].status = Created
    /\ Products[ObjectId(E1)].spaces = 2

\* C9: within one call the order record is inserted before any decrement, and
\* at every moment the lessons carry the decrements of exactly the first idx
\* items, in request order; when the decrement of an item fails the request is
\* answered 500, the record and the earlier decrements stay and no later item
\* is applied.
C9_PrefixOrderNoRollback ==
    LET c == call[1]
        items == ItemsOf(c)
    IN  /\ DecrementedBy(items, c.idx)
        /\ (c.pc = "loop" \/ c.idx > 0) => (Orders = <<RecordOf(c)>>)
        /\ (c.pc = "loop") => (c.idx < Len(items))
        /\ (c.pc = "done" /\ c.err \in {"objectid", "update"}) =>
              /\ c.status = ServerError
              /\ Orders = <<RecordOf(c)>>
              /\ c.idx < Len(items)

C9_Witness ==
    LET c == call[1]
        items == ItemsOf(c)
    IN  /\ c.pc = "done" /\ c.status = ServerError /\ c.err = "objectid"
        /\ Len(items) = 3
        /\ items[1] = Item(E1, 3) /\ items[2] = Item(Bad, 3) /\ items[3] = Item(E2, 3)
        /\ Len(Orders) = 1
        /\ Products[ObjectId(E1)].spaces = 2 /\ Products[ObjectId(E2)].spaces = 3

\* C10: under any interleaving no decrement is lost or merged: spaces of each
\* lesson is its initial value minus the sum of qty over the items applied so
\* far by every call, duplicates counted separately and with no floor at zero,
\* and the Order Store holds one record per call that is past its insert; so
\* when every call has completed with 201 the sum runs over all items of all
\* calls and the store holds exactly one record per call.
C10_NoLostDecrement ==
    /\ \A oid \in DOMAIN InitProducts :
         Products[oid].spaces =
             InitProducts[oid].spaces
             - SumOver([p \in Calls |-> SumQty(ItemsOf(call[p]), oid, call[p].idx)], Calls)
    /\ \A d \in {RecordOf(call[p]) : p \in Calls} \cup {Orders[i] : i \in 1..Len(Orders)} :
         Cardinality({i \in 1..Len(Orders) : Orders[i] = d})
             = Cardinality({p \in Calls : Inserted(call[p]) /\ RecordOf(call[p]) = d})
    /\ AllCompleted =>
         /\ Len(Orders) = NumCalls
         /\ \A oid \in DOMAIN InitProducts :
              Products[oid].spaces =
                  InitProducts[oid].spaces
                  - SumOver([p \in Calls |->
                               SumQty(ItemsOf(call[p]), oid, Len(ItemsOf(call[p])))], Calls)

C10_Witness ==
    /\ AllCompleted
    /\ \A p \in Calls : Len(ItemsOf(call[p])) > 0 /\ ItemsOf(call[p])[1] = Item(E1, 3)
    /\ \E p \in Calls : Len(ItemsOf(call[p])) = 2
    /\ Products[ObjectId(E1)].spaces < 0

====
